---- MODULE Spec2Model ----
(***************************************************************************)
(* Model of managetkeventdata: calls scheduled from any thread through     *)
(* event_generate() or through proxies are executed on tkinter's main      *)
(* thread.  The state is the module's hidden globals (datastream, count,   *)
(* generation_lock, local, main_cell_set), Tcl's event queue as filled by  *)
(* widget.event_generate(..., when='tail'), the ReturnCell of every        *)
(* thread, and the position of every thread in the code.                   *)
(*                                                                         *)
(* The main thread of the Python process is the thread that runs the Tk    *)
(* main loop, as the module's docstring assumes.                           *)
(***************************************************************************)
EXTENDS Integers, Sequences, FiniteSets, TLC

\* Total number of calls the threads start in one run.
MaxCalls == 2

\* Number of times the attribute of a target object is bound to another
\* function in one run.
MaxAssign == 1

\* Number of events that Tk drops or runs twice in one run.
MaxFaults == 1

MainThread == "main"
Workers == {"t1", "t2"}
Threads == {MainThread} \cup Workers

virtual_event == "<<managetkeventdata-call>>"
test_event == "<<test>>"

\* What a call of a wrapped object's method does: it returns a value (as
\* Foo.square), raises an Exception (as Foo.boom: ZeroDivisionError), or
\* raises a BaseException that is not an Exception (a KeyboardInterrupt
\* reaching the main thread while the method runs).
Outcomes == {"value", "Exception", "BaseException"}

Unset == "unset"
None == "None"
NoObj == [cls |-> "None", v |-> 0, id |-> -1]
NoFunc == [x |-> 0, id |-> -1, caller |-> None, f |-> -1, at_call |-> -1]
NoData == [handler |-> "none", cell |-> None, func |-> NoFunc]
NoFrame == [kind |-> "none", generator |-> "none", sequence |-> "",
            data |-> NoData, index |-> -1]
NoCur == [index |-> -1, sequence |-> "", data |-> NoData, result |-> NoObj,
          err_flag |-> FALSE]
\* flag_writes and value_writes are history: the writes of a handler to the
\* cell since its bell was last cleared.
NewCell == [value |-> NoObj, err_flag |-> FALSE, bell |-> FALSE,
            flag_writes |-> 0, value_writes |-> 0]
NoForwarder == [kind |-> "none", f |-> -1, at_access |-> -1]

VARIABLES
    count,            \* itertools.count(): the next index
    datastream,       \* deque of (index, data)
    generation_lock,  \* holder of the RLock, or None
    tkqueue,          \* Tcl's event queue: (sequence, %d) in tail order
    local,            \* threading.local().return_cell of every thread
    main_cell_set,
    cells,            \* state of the ReturnCell objects, by cell
    pc,               \* position of every thread
    frame,            \* locals of the call a thread is making
    cur,              \* locals of the main thread's running event handler
    ret,              \* how the last proxy call of a thread ended
    ncalls,           \* calls started so far
    log,              \* history: executions of target functions
    handled,          \* history: calls of exception handlers
    escaped,          \* history: exceptions that left an event handler
    discarded,        \* history: entries dequeued and not handled
    enqueued,         \* history: the entries appended to datastream
    notified,         \* history: the %d of the events generated
    attr,             \* the function the target's attribute is bound to
    forwarder,        \* what a thread got from a proxy's attribute
    tkfaults          \* history: events Tk dropped or ran twice

vars == <<count, datastream, generation_lock, tkqueue, local, main_cell_set,
          cells, pc, frame, cur, ret, ncalls, log, handled, escaped,
          discarded, enqueued, notified, attr, forwarder, tkfaults>>

shared == <<count, datastream, generation_lock, tkqueue>>
marshal == <<enqueued, notified>>
hist == <<log, handled, escaped, discarded, marshal>>
proxies == <<attr, forwarder>>

----------------------------------------------------------------------------
\* str(index) and int(args[0]): the index travels as a decimal string.

Digit(d) == <<"0", "1", "2", "3", "4", "5", "6", "7", "8", "9">>[d + 1]

DigitValue(c) == CHOOSE d \in 0..9 : Digit(d) = c

RECURSIVE str(_)
str(n) == IF n < 10 THEN <<Digit(n)>>
          ELSE Append(str(n \div 10), Digit(n % 10))

RECURSIVE int(_)
int(s) == IF Len(s) = 0 THEN 0
          ELSE 10 * int(SubSeq(s, 1, Len(s) - 1)) + DigitValue(s[Len(s)])

----------------------------------------------------------------------------
\* func(): the wrapped object's method called with its arguments; the
\* value it returns is the square of its argument.
Call(func, outcome) ==
    [cls |-> outcome,
     v |-> IF outcome = "value" THEN func.x * func.x ELSE 0,
     id |-> func.id]

Raised(obj) == obj.cls \in {"Exception", "BaseException"}

\* Seeded fault: the except clause catches nothing.
CaughtNothing(obj) == FALSE

\* except Exception as exc
CaughtAsException(obj) == obj.cls = "Exception"

Init ==
    /\ count = 0
    /\ datastream = <<>>
    /\ generation_lock = None
    /\ tkqueue = <<>>
    /\ \E in_main \in BOOLEAN :
          /\ main_cell_set = in_main
          /\ local = [t \in Threads |->
                        IF in_main /\ t = MainThread THEN None ELSE Unset]
    /\ cells = [t \in Threads |-> NewCell]
    /\ pc = [t \in Threads |-> "idle"]
    /\ frame = [t \in Threads |-> NoFrame]
    /\ cur = NoCur
    /\ ret = [t \in Threads |-> [how |-> "idle", obj |-> NoObj, id |-> -1,
                                 kind |-> "none"]]
    /\ ncalls = 0
    /\ log = <<>>
    /\ handled = <<>>
    /\ escaped = <<>>
    /\ discarded = {}
    /\ enqueued = <<>>
    /\ notified = <<>>
    /\ attr = 0
    /\ forwarder = [t \in Threads |-> NoForwarder]
    /\ tkfaults = [lost |-> {}, twice |-> {}]

----------------------------------------------------------------------------
\* return_cell(): the thread-local cell, created on first use; None in the
\* main thread.  A cell is named by the thread it was created for.

\* Seeded fault: one cell for all the threads.
SharedCell(t) == "t1"

ReturnCell(t) == t

\* Seeded fault: no thread gets a cell.
return_cell_none(t) == None

\* Seeded fault: the main thread gets a cell like any other thread.
return_cell_always(t) ==
    IF local[t] \notin {Unset, None} THEN local[t] ELSE ReturnCell(t)

return_cell(t) ==
    IF local[t] # Unset THEN local[t]
    ELSE IF main_cell_set \/ t # MainThread THEN ReturnCell(t)
    ELSE None

return_cell_effect(t) ==
    /\ local' = [local EXCEPT ![t] = return_cell(t)]
    /\ main_cell_set' =
          IF local[t] = Unset /\ ~(main_cell_set \/ t # MainThread)
          THEN TRUE ELSE main_cell_set

\* Seeded fault: the bell is not cleared before the event is generated.
bell_clear_skipped(cell) == cells

\* cell.bell.clear()
bell_clear(cell) ==
    [cells EXCEPT ![cell].bell = FALSE, ![cell].flag_writes = 0,
                  ![cell].value_writes = 0]

EventData(handler, cell, func) ==
    [handler |-> handler, cell |-> cell, func |-> func]

\* partial(func, *args, **kwargs); the calls are numbered as they start and
\* the number identifies the partial object and what it creates.  The
\* argument of the k-th call is k + 1.  f is the function the partial object
\* wraps; at_call is history: the function the target's attribute is bound to
\* when the call is made.
Partial(t, f) ==
    [x |-> ncalls + 2, id |-> ncalls, caller |-> t, f |-> f,
     at_call |-> attr]

\* getattr(obj, name): the function the attribute is bound to now.
getattr == attr

Ended(t, how, obj) ==
    [how |-> how, obj |-> obj, id |-> frame[t].data.func.id,
     kind |-> frame[t].kind]

----------------------------------------------------------------------------
\* The calling side.

\* event_generate(widget, '<<test>>', data) called directly, the sequence
\* being bound to a handler with bind().
EventGenerateCall(t) ==
    /\ pc[t] = "idle"
    /\ ncalls < MaxCalls
    /\ ncalls' = ncalls + 1
    /\ frame' = [frame EXCEPT ![t] =
                   [kind |-> "event", generator |-> "none",
                    sequence |-> test_event,
                    data |-> EventData("user", None, Partial(t, getattr)),
                    index |-> -1]]
    /\ pc' = [pc EXCEPT ![t] = "lock"]
    /\ UNCHANGED <<shared, local, main_cell_set, cells, cur, ret, hist,
                   proxies, tkfaults>>

\* Seeded fault: mute_proxy makes its proxy with a FuncGenerator.
GeneratorFunc(kind) == "FuncGenerator"

\* ProxyBuilder.mute_proxy and ProxyBuilder.proxy: the generator and the
\* handler a proxy is made with.
Generator(kind) ==
    IF kind = "mute" THEN "ProcGenerator" ELSE "FuncGenerator"

Handler(kind, exc_handler) ==
    IF kind = "mute"
    THEN IF exc_handler THEN "ProcExcHandler" ELSE "ProcHandler"
    ELSE "FuncHandler"

\* func of a proxy of the given kind is called with arguments: method() of
\* make_proxy calls the generator with partial(func, *args, **kwargs).
\* ProcGenerator.__call__ calls event_generate.  FuncGenerator.__call__
\* calls the method itself when return_cell() is None and otherwise clears
\* the bell of the cell and calls event_generate.
GeneratorCall(t, kind, exc_handler, func) ==
    /\ pc[t] = "idle"
    /\ ncalls < MaxCalls
    /\ ncalls' = ncalls + 1
    /\ IF Generator(kind) = "ProcGenerator"
       THEN /\ frame' = [frame EXCEPT ![t] =
                  [kind |-> kind, generator |-> Generator(kind),
                   sequence |-> virtual_event,
                   data |-> EventData(Handler(kind, exc_handler), None,
                                      Partial(t, func)),
                   index |-> -1]]
            /\ pc' = [pc EXCEPT ![t] = "lock"]
            /\ UNCHANGED <<local, main_cell_set, cells>>
       ELSE LET cell == return_cell(t) IN
            /\ return_cell_effect(t)
            /\ frame' = [frame EXCEPT ![t] =
                  [kind |-> kind, generator |-> Generator(kind),
                   sequence |-> virtual_event,
                   data |-> EventData(Handler(kind, exc_handler), cell,
                                      Partial(t, func)),
                   index |-> -1]]
            /\ IF cell = None
               THEN /\ pc' = [pc EXCEPT ![t] = "inplace"]
                    /\ cells' = cells
               ELSE /\ pc' = [pc EXCEPT ![t] = "lock"]
                    /\ cells' = bell_clear(cell)
    /\ UNCHANGED <<shared, cur, ret, hist, attr, tkfaults>>

\* proxy.name(...) on a mute proxy: the attribute is looked up and what it
\* gives is called at once; exc_handler tells whether mute_proxy() was
\* given an exception handler.
MuteCall(t, exc_handler) ==
    /\ GeneratorCall(t, "mute", exc_handler, getattr)
    /\ UNCHANGED forwarder

\* proxy.name(...) on an ordinary proxy.
SyncCall(t) ==
    /\ GeneratorCall(t, "sync", FALSE, getattr)
    /\ UNCHANGED forwarder

\* result = func() in the calling thread.
InPlace(t) ==
    /\ pc[t] = "inplace"
    /\ \E outcome \in Outcomes :
       LET result == Call(frame[t].data.func, outcome) IN
       /\ log' = Append(log, [func |-> frame[t].data.func,
                               handler |-> frame[t].data.handler,
                               n |-> -1, by |-> t, result |-> result])
       /\ ret' = [ret EXCEPT ![t] =
                    Ended(t, IF Raised(result) THEN "raise" ELSE "return",
                          result)]
    /\ pc' = [pc EXCEPT ![t] = "idle"]
    /\ frame' = [frame EXCEPT ![t] = NoFrame]
    /\ UNCHANGED <<shared, local, main_cell_set, cells, cur, ncalls, proxies,
                   tkfaults, handled, escaped, discarded, marshal>>

\* Seeded fault: event_generate does not take the lock.
LockIgnored(t) == TRUE

\* with generation_lock: index = next(count)
LockFree(t) == generation_lock = None

Acquire(t) ==
    /\ pc[t] = "lock"
    /\ LockFree(t)
    /\ generation_lock' = t
    /\ frame' = [frame EXCEPT ![t].index = count]
    /\ count' = count + 1
    /\ pc' = [pc EXCEPT ![t] = "enqueue"]
    /\ UNCHANGED <<datastream, tkqueue, local, main_cell_set, cells, cur,
                   ret, ncalls, proxies, tkfaults, hist>>

\* enqueue((index, data))
Enqueue(t) ==
    /\ pc[t] = "enqueue"
    /\ datastream' = Append(datastream,
                            [n |-> frame[t].index, data |-> frame[t].data])
    /\ enqueued' = Append(enqueued, [n |-> frame[t].index,
                                     id |-> frame[t].data.func.id])
    /\ pc' = [pc EXCEPT ![t] = "notify"]
    /\ UNCHANGED <<count, generation_lock, tkqueue, local, main_cell_set,
                   cells, frame, cur, ret, ncalls, proxies, tkfaults, log,
                   handled, escaped, discarded, notified>>

\* widget.event_generate(sequence, data=str(index), when='tail')
Notify(t) ==
    /\ pc[t] = "notify"
    /\ tkqueue' = Append(tkqueue, [sequence |-> frame[t].sequence,
                                   d |-> str(frame[t].index)])
    /\ notified' = Append(notified, str(frame[t].index))
    /\ pc' = [pc EXCEPT ![t] = "unlock"]
    /\ UNCHANGED <<count, datastream, generation_lock, local, main_cell_set,
                   cells, frame, cur, ret, ncalls, proxies, tkfaults, log,
                   handled, escaped, discarded, enqueued>>

\* Seeded fault: every generator waits for the bell.
WaitsAlways(generator) == TRUE

\* FuncGenerator.__call__ waits for the bell after event_generate.
Waits(generator) == generator = "FuncGenerator"

\* Seeded fault: the lock is still held after event_generate.
StillLocked(t) == t

\* Leaving the with block releases the lock.
Unlocked(t) == None

\* Leaving the with block and event_generate; a mute proxy call and a
\* direct event_generate return None here.
Release(t) ==
    /\ pc[t] = "unlock"
    /\ generation_lock' = Unlocked(t)
    /\ IF Waits(frame[t].generator)
       THEN /\ pc' = [pc EXCEPT ![t] = "wait"]
            /\ UNCHANGED <<frame, ret>>
       ELSE /\ pc' = [pc EXCEPT ![t] = "idle"]
            /\ ret' = [ret EXCEPT ![t] = Ended(t, "none", NoObj)]
            /\ frame' = [frame EXCEPT ![t] = NoFrame]
    /\ UNCHANGED <<count, datastream, tkqueue, local, main_cell_set, cells,
                   cur, ncalls, proxies, tkfaults, hist>>

\* ReturnCell.set_return
set_return(cell, value) == [cells EXCEPT ![cell].value = value]

\* cell.bell.wait(); result = cell.set_return(None); raise or return.
WaitReturn(t) ==
    /\ pc[t] = "wait"
    /\ LET cell == frame[t].data.cell
           result == cells[cell].value
       IN
       /\ cells[cell].bell
       /\ cells' = set_return(cell, NoObj)
       /\ ret' = [ret EXCEPT ![t] =
                    Ended(t, IF cells[cell].err_flag THEN "raise"
                                                     ELSE "return",
                          result)]
    /\ pc' = [pc EXCEPT ![t] = "idle"]
    /\ frame' = [frame EXCEPT ![t] = NoFrame]
    /\ UNCHANGED <<shared, local, main_cell_set, cur, ncalls, proxies,
                   tkfaults, hist>>

----------------------------------------------------------------------------
\* The main thread: Tk's main loop runs the binding of the event at the head
\* of its queue, which calls _substitute and then the bound function.

Leave(exc) ==
    /\ escaped' = Append(escaped, exc)
    /\ pc' = [pc EXCEPT ![MainThread] = "idle"]
    /\ cur' = NoCur

Finish ==
    /\ pc' = [pc EXCEPT ![MainThread] = "idle"]
    /\ cur' = NoCur

Executed(result) ==
    log' = Append(log, [func |-> cur.data.func, handler |-> cur.data.handler,
                        n |-> cur.index, by |-> MainThread,
                        result |-> result])

\* The main loop takes the next event: index = int(args[0]).
Dispatch ==
    /\ pc[MainThread] = "idle"
    /\ tkqueue # <<>>
    /\ tkqueue' = Tail(tkqueue)
    /\ cur' = [NoCur EXCEPT !.index = int(Head(tkqueue).d),
                            !.sequence = Head(tkqueue).sequence]
    /\ pc' = [pc EXCEPT ![MainThread] = "subst"]
    /\ UNCHANGED <<count, datastream, generation_lock, local, main_cell_set,
                   cells, frame, ret, ncalls, proxies, tkfaults, hist>>

\* Seeded fault: the loop stops at the first entry.
FoundFirst(n, index) == TRUE

\* Seeded fault: the loop goes on at the entry it looks for.
FoundLate(n, index) == n > index

\* if n >= index: break
Found(n, index) == n >= index

\* Seeded fault: no assertion after the loop.
AssertSkipped(n, index) == TRUE

\* assert n == index
AssertHolds(n, index) == n = index

\* Seeded fault: the head entry is read and left in the deque.
dequeue_kept(ds) == ds

\* dequeue = datastream.popleft: what is left of the deque.
dequeue(ds) == Tail(ds)

\* One turn of the loop of _substitute, and the assertion after it.
\* dequeue() of an empty deque raises IndexError.  The exceptions carry, as
\* history, the index that was looked for.
Substitute ==
    /\ pc[MainThread] = "subst"
    /\ IF datastream = <<>>
       THEN /\ Leave([cls |-> "IndexError", v |-> cur.index, id |-> -1])
            /\ UNCHANGED <<datastream, discarded>>
       ELSE LET n == Head(datastream).n
                data == Head(datastream).data
            IN
            /\ datastream' = dequeue(datastream)
            /\ IF ~Found(n, cur.index)
               THEN /\ discarded' = discarded \cup {n}
                    /\ UNCHANGED <<pc, cur, escaped>>
               ELSE IF AssertHolds(n, cur.index)
               THEN /\ cur' = [cur EXCEPT !.data = data]
                    /\ pc' = [pc EXCEPT ![MainThread] = "call"]
                    /\ UNCHANGED <<discarded, escaped>>
               ELSE /\ discarded' = discarded \cup {n}
                    /\ Leave([cls |-> "AssertionError", v |-> cur.index,
                              id |-> -1])
    /\ UNCHANGED <<count, generation_lock, tkqueue, local, main_cell_set,
                   cells, frame, ret, ncalls, proxies, tkfaults, log, handled,
                   marshal>>

\* The function bound to '<<test>>' receives SmallEvent(data, widget).
UserHandler ==
    /\ pc[MainThread] = "call"
    /\ cur.sequence = test_event
    /\ Executed(NoObj)
    /\ Finish
    /\ UNCHANGED <<shared, local, main_cell_set, cells, frame, ret, ncalls,
                   proxies, tkfaults, handled, escaped, discarded, marshal>>

\* Seeded fault: ProcHandler.__call__ catches whatever func raises.
UncaughtNone(obj) == FALSE

\* ProcHandler.__call__ has no try statement: whatever func raises leaves it.
Uncaught(obj) == Raised(obj)

\* handle_call, then ProcHandler.__call__: event.data.func()
ProcHandler ==
    /\ pc[MainThread] = "call"
    /\ cur.sequence = virtual_event
    /\ cur.data.handler = "ProcHandler"
    /\ \E outcome \in Outcomes :
       LET result == Call(cur.data.func, outcome) IN
       /\ Executed(result)
       /\ IF Uncaught(result)
          THEN Leave(result)
          ELSE Finish /\ UNCHANGED escaped
    /\ UNCHANGED <<shared, local, main_cell_set, cells, frame, ret, ncalls,
                   proxies, tkfaults, handled, discarded, marshal>>

\* handle_call, then ProcExcHandler.__call__ up to the call of the
\* exception handler.
ProcExcHandler ==
    /\ pc[MainThread] = "call"
    /\ cur.sequence = virtual_event
    /\ cur.data.handler = "ProcExcHandler"
    /\ \E outcome \in Outcomes :
       LET result == Call(cur.data.func, outcome) IN
       /\ Executed(result)
       /\ IF CaughtAsException(result)
          THEN /\ cur' = [cur EXCEPT !.result = result]
               /\ pc' = [pc EXCEPT ![MainThread] = "exc_handler"]
               /\ UNCHANGED escaped
          ELSE IF Raised(result)
          THEN Leave(result)
          ELSE Finish /\ UNCHANGED escaped
    /\ UNCHANGED <<shared, local, main_cell_set, cells, frame, ret, ncalls,
                   proxies, tkfaults, handled, discarded, marshal>>

\* self._exc_handler(exc)
ExcHandler ==
    /\ pc[MainThread] = "exc_handler"
    /\ handled' = Append(handled, [exc |-> cur.result, by |-> MainThread])
    /\ Finish
    /\ UNCHANGED <<shared, local, main_cell_set, cells, frame, ret, ncalls,
                   proxies, tkfaults, log, escaped, discarded, marshal>>

\* Seeded fault: err_flag is never set.
ErrFlagNever(result) == FALSE

\* except Exception as exc: err_flag = True; else: err_flag = False
ErrFlag(result) == CaughtAsException(result)

\* handle_call, then FuncHandler.__call__ up to the writes to the cell.
FuncHandler ==
    /\ pc[MainThread] = "call"
    /\ cur.sequence = virtual_event
    /\ cur.data.handler = "FuncHandler"
    /\ \E outcome \in Outcomes :
       LET result == Call(cur.data.func, outcome) IN
       /\ Executed(result)
       /\ IF Raised(result) /\ ~CaughtAsException(result)
          THEN Leave(result)
          ELSE /\ cur' = [cur EXCEPT !.result = result,
                                     !.err_flag = ErrFlag(result)]
               /\ pc' = [pc EXCEPT ![MainThread] = "set_flag"]
               /\ UNCHANGED escaped
    /\ UNCHANGED <<shared, local, main_cell_set, cells, frame, ret, ncalls,
                   proxies, tkfaults, handled, discarded, marshal>>

\* cell.err_flag = err_flag
SetErrFlag ==
    /\ pc[MainThread] = "set_flag"
    /\ cells' = [cells EXCEPT
                   ![cur.data.cell].err_flag = cur.err_flag,
                   ![cur.data.cell].flag_writes = @ + 1]
    /\ pc' = [pc EXCEPT ![MainThread] = "set_value"]
    /\ UNCHANGED <<shared, local, main_cell_set, frame, cur, ret, ncalls,
                   proxies, tkfaults, hist>>

\* cell.set_return(result)
SetReturn ==
    /\ pc[MainThread] = "set_value"
    /\ cells' = [set_return(cur.data.cell, cur.result) EXCEPT
                   ![cur.data.cell].value_writes = @ + 1]
    /\ pc' = [pc EXCEPT ![MainThread] = "set_bell"]
    /\ UNCHANGED <<shared, local, main_cell_set, frame, cur, ret, ncalls,
                   proxies, tkfaults, hist>>

\* cell.bell.set()
BellSet ==
    /\ pc[MainThread] = "set_bell"
    /\ cells' = [cells EXCEPT ![cur.data.cell].bell = TRUE]
    /\ Finish
    /\ UNCHANGED <<shared, local, main_cell_set, frame, ret, ncalls, proxies,
                   tkfaults, hist>>

----------------------------------------------------------------------------
\* The steps of a calling thread that need no step of the main loop.
Producer(t) ==
    \/ EventGenerateCall(t)
    \/ \E exc_handler \in BOOLEAN : MuteCall(t, exc_handler)
    \/ SyncCall(t)
    \/ Acquire(t)
    \/ Enqueue(t)
    \/ Notify(t)
    \/ Release(t)

Caller(t) ==
    \/ Producer(t)
    \/ InPlace(t)
    \/ WaitReturn(t)

MainLoop ==
    \/ Dispatch
    \/ Substitute
    \/ UserHandler
    \/ ProcHandler
    \/ ProcExcHandler
    \/ ExcHandler
    \/ FuncHandler
    \/ SetErrFlag
    \/ SetReturn
    \/ BellSet

Next == (\E t \in Threads : Caller(t)) \/ MainLoop

Spec == Init /\ [][Next]_vars

\* The main loop keeps running and the threads are scheduled.
FairSpec ==
    /\ Spec
    /\ WF_vars(MainLoop)
    /\ \A t \in Threads :
          WF_vars(InPlace(t) \/ Acquire(t) \/ Enqueue(t) \/ Notify(t)
                  \/ Release(t) \/ WaitReturn(t))

\* The main thread makes no step at all; the other threads are scheduled.
\* InPlace and WaitReturn are left out: no thread but the main thread gets
\* to InPlace, and no bell rings.
NextMainStopped == \E t \in Workers : Producer(t)

SpecMainStopped ==
    /\ Init
    /\ [][NextMainStopped]_vars
    /\ \A t \in Workers :
          WF_vars(Acquire(t) \/ Enqueue(t) \/ Notify(t) \/ Release(t))

----------------------------------------------------------------------------
\* Proxies of an object whose attribute is bound to another function while
\* the threads use the proxies.  m = proxy.name is one step of a thread and
\* m(...) is another.

\* setattr(obj, name, another function), by any thread.
Reassign ==
    /\ attr < MaxAssign
    /\ attr' = attr + 1
    /\ UNCHANGED <<shared, local, main_cell_set, cells, pc, frame, cur, ret,
                   ncalls, hist, forwarder, tkfaults>>

\* m = proxy.name: Proxy.__getattr__ calls _getattr of make_proxy, which
\* returns partial(method, getattr(obj, name)).  at_access is history: the
\* function the attribute was bound to at this step.
GetAttr(t, kind) ==
    /\ pc[t] = "idle"
    /\ forwarder' = [forwarder EXCEPT ![t] =
                       [kind |-> kind, f |-> getattr, at_access |-> attr]]
    /\ forwarder'[t] # forwarder[t]
    /\ UNCHANGED <<shared, local, main_cell_set, cells, pc, frame, cur, ret,
                   ncalls, hist, attr, tkfaults>>

\* Seeded fault: the attribute is looked up when m is called.
ResolvedLate(t) == attr

\* The func that partial(method, func) gives to method when m is called.
Resolved(t) == forwarder[t].f

\* m(...): the thread keeps m and may call it again.
ForwarderCall(t) ==
    /\ forwarder[t] # NoForwarder
    /\ GeneratorCall(t, forwarder[t].kind, FALSE, Resolved(t))
    /\ UNCHANGED forwarder

\* The thread that keeps what it got from the proxies.
ProxyUsers == {"t1"}

NextProxy ==
    \/ Reassign
    \/ \E t \in ProxyUsers :
          \/ \E kind \in {"mute", "sync"} : GetAttr(t, kind)
          \/ ForwarderCall(t)
          \/ Acquire(t)
          \/ Enqueue(t)
          \/ Notify(t)
          \/ Release(t)
          \/ WaitReturn(t)
    \/ Dispatch
    \/ Substitute
    \/ ProcHandler
    \/ FuncHandler
    \/ SetErrFlag
    \/ SetReturn
    \/ BellSet

SpecProxy == Init /\ [][NextProxy]_vars

----------------------------------------------------------------------------
\* bind() and event_generate() with a Tk that does not run the binding of
\* every event exactly once: an event is dropped when no binding of its
\* sequence runs _substitute for it, and handled twice when two bindings of
\* its sequence (bind with add=True) each run _substitute for it.

FaultsLeft ==
    Cardinality(tkfaults.lost) + Cardinality(tkfaults.twice) < MaxFaults

\* The event at the head of Tcl's queue is dropped.
Lose ==
    /\ pc[MainThread] = "idle"
    /\ tkqueue # <<>>
    /\ FaultsLeft
    /\ tkqueue' = Tail(tkqueue)
    /\ tkfaults' = [tkfaults EXCEPT
                      !.lost = @ \cup {int(Head(tkqueue).d)}]
    /\ UNCHANGED <<count, datastream, generation_lock, local, main_cell_set,
                   cells, pc, frame, cur, ret, ncalls, hist, proxies>>

\* _substitute is called for the event at the head of Tcl's queue, and will
\* be called for it once more.
DispatchTwice ==
    /\ pc[MainThread] = "idle"
    /\ tkqueue # <<>>
    /\ FaultsLeft
    /\ int(Head(tkqueue).d) \notin tkfaults.twice
    /\ tkfaults' = [tkfaults EXCEPT
                      !.twice = @ \cup {int(Head(tkqueue).d)}]
    /\ cur' = [NoCur EXCEPT !.index = int(Head(tkqueue).d),
                            !.sequence = Head(tkqueue).sequence]
    /\ pc' = [pc EXCEPT ![MainThread] = "subst"]
    /\ UNCHANGED <<shared, local, main_cell_set, cells, frame, ret, ncalls,
                   hist, proxies>>

NextLossy ==
    \/ \E t \in Threads :
          \/ EventGenerateCall(t)
          \/ Acquire(t)
          \/ Enqueue(t)
          \/ Notify(t)
          \/ Release(t)
    \/ Dispatch
    \/ Lose
    \/ DispatchTwice
    \/ Substitute
    \/ UserHandler

SpecLossy == Init /\ [][NextLossy]_vars

----------------------------------------------------------------------------
\* Properties.

Execs == 1..Len(log)
IsScheduled(i) == log[i].n # -1
IsProxyCall(i) ==
    log[i].handler \in {"ProcHandler", "ProcExcHandler", "FuncHandler"}
ExecsOf(id) == {i \in Execs : log[i].func.id = id}

\* C1: the main thread executes the scheduled calls in the order of their
\* indices, the order in which they were scheduled under the lock, and so
\* the calls of one thread in the order in which the thread made them.
Ordering ==
    \A i, j \in Execs :
        (i < j /\ IsScheduled(i) /\ IsScheduled(j)) =>
            /\ log[i].n < log[j].n
            /\ log[i].func.caller = log[j].func.caller
                  => log[i].func.id < log[j].func.id

OrderingWitness ==
    \E i, j \in Execs :
        /\ i < j /\ IsScheduled(i) /\ IsScheduled(j)
        /\ log[i].func.caller # log[j].func.caller
        /\ log[i].func.caller \in Workers
        /\ log[j].func.caller \in Workers

\* C2: every payload given an index is executed exactly once: an index
\* taken from the counter is about to be enqueued, or in the queue, or in
\* the hands of the running handler, or executed once, and never two of
\* these; no entry leaves the queue unhandled and no payload is executed
\* twice.
ExactlyOnce ==
    /\ discarded = {}
    /\ \A i, j \in Execs : i # j => log[i].func.id # log[j].func.id
    /\ \A n \in 0..(count - 1) :
          Cardinality({t \in Threads :
                          pc[t] = "enqueue" /\ frame[t].index = n})
            + Cardinality({k \in 1..Len(datastream) : datastream[k].n = n})
            + (IF pc[MainThread] = "call" /\ cur.index = n THEN 1 ELSE 0)
            + Cardinality({i \in Execs : log[i].n = n})
          = 1

ExactlyOnceWitness ==
    /\ count >= 2
    /\ datastream = <<>>
    /\ \A n \in 0..(count - 1) : \E i \in Execs : log[i].n = n

\* C3: every method called through a proxy is executed by the main thread.
OnMainThread ==
    \A i \in Execs : IsProxyCall(i) => log[i].by = MainThread

OnMainThreadWitness ==
    \E i, j \in Execs :
        /\ log[i].func.caller \in Workers /\ log[i].handler = "FuncHandler"
        /\ log[j].func.caller \in Workers /\ log[j].handler = "ProcHandler"

\* C4: a call through an ordinary proxy whose method returned a value
\* returns that value, the one made by the execution of this very call,
\* and a call that returns has been executed and its method returned.
RoundTrip ==
    \A t \in Threads :
        ret[t].kind = "sync" =>
            /\ \A i \in ExecsOf(ret[t].id) :
                  log[i].result.cls = "value" =>
                      /\ ret[t].how = "return"
                      /\ ret[t].obj = log[i].result
                      /\ ret[t].obj.v = log[i].func.x * log[i].func.x
            /\ ret[t].how = "return" =>
                  \E i \in ExecsOf(ret[t].id) :
                      /\ log[i].func.caller = t
                      /\ log[i].result.cls = "value"

\* A thread has its value while another, which called before it, waits.
RoundTripWitness ==
    \E t, u \in Workers :
        /\ t # u
        /\ ret[t].kind = "sync" /\ ret[t].how = "return"
        /\ pc[u] = "wait"
        /\ frame[u].data.func.id < ret[t].id

\* C5: a call through an ordinary proxy whose method raised ends by raising
\* the very exception object the method raised and returns no value, and a
\* call that raises does so because its method raised.
ExceptionPropagation ==
    \A t \in Threads :
        ret[t].kind = "sync" =>
            /\ \A i \in ExecsOf(ret[t].id) :
                  Raised(log[i].result) =>
                      /\ ret[t].how = "raise"
                      /\ ret[t].obj = log[i].result
            /\ ret[t].how = "raise" =>
                  \E i \in ExecsOf(ret[t].id) :
                      /\ log[i].func.caller = t
                      /\ Raised(log[i].result)

ExceptionPropagationWitness ==
    \E t \in Workers :
        /\ ret[t].kind = "sync" /\ ret[t].how = "raise"
        /\ ret[t].obj.cls = "Exception"
        /\ \E i \in ExecsOf(ret[t].id) : log[i].by = MainThread

\* C6: with the main loop running, every call given an index is executed in
\* the end and every thread that waits for the bell of its cell goes on in
\* the end, whatever the method did.
EventuallyExecutedAndWoken ==
    /\ \A n \in 0..(MaxCalls - 1) :
          (count > n) ~> (\E i \in Execs : log[i].n = n)
    /\ \A t \in Workers : (pc[t] = "wait") ~> (pc[t] = "idle")

\* What holds of the waiting threads: a thread goes on unless the exception
\* of its method left FuncHandler.__call__.
WokenUnlessEscaped ==
    \A t \in Workers :
        (pc[t] = "wait") ~>
            (\/ pc[t] = "idle"
             \/ \E k \in 1..Len(escaped) :
                   escaped[k].id = frame[t].data.func.id)

\* C7: a call through an ordinary proxy made by the main thread is executed
\* by the main thread at once: its steps leave the counter, the queue, Tcl's
\* event queue, the lock and the cells as they are, and it ends with what
\* the method did.
OwnerInPlace ==
    [][(/\ pc'[MainThread] # pc[MainThread]
        /\ \/ frame[MainThread].generator = "FuncGenerator"
           \/ frame'[MainThread].generator = "FuncGenerator")
       => /\ UNCHANGED <<count, datastream, tkqueue, generation_lock, cells>>
          /\ pc'[MainThread] \in {"inplace", "idle"}
          /\ pc'[MainThread] = "idle" =>
                /\ Len(log') = Len(log) + 1
                /\ log'[Len(log')].by = MainThread
                /\ log'[Len(log')].n = -1
                /\ log'[Len(log')].func = frame[MainThread].data.func
                /\ ret'[MainThread].obj = log'[Len(log')].result]_vars

\* The main thread has its value while a scheduled call is in the queue.
OwnerInPlaceWitness ==
    /\ ret[MainThread].kind = "sync"
    /\ ret[MainThread].how = "return"
    /\ datastream # <<>>
    /\ tkqueue # <<>>

\* C8: a call through a mute proxy returns None and raises nothing in the
\* calling thread, which neither executes the method nor waits for it.
MuteSilence ==
    \A t \in Threads :
        /\ ret[t].kind = "mute" => ret[t].how = "none" /\ ret[t].obj = NoObj
        /\ frame[t].kind = "mute" => pc[t] \notin {"inplace", "wait"}

\* A thread and the main thread have each called a method that raised.
MuteSilenceWitness ==
    \E w \in Workers :
        \A t \in {w, MainThread} :
            /\ ret[t].kind = "mute"
            /\ \E i \in ExecsOf(ret[t].id) :
                  /\ log[i].handler = "ProcHandler"
                  /\ Raised(log[i].result)

HandlerRunning(id) ==
    pc[MainThread] = "exc_handler" /\ cur.data.func.id = id

HandledOf(id) == {k \in 1..Len(handled) : handled[k].exc.id = id}

\* C9 as stated: the exception handler of a mute proxy is called once, by
\* the main thread, with the exception, when the method raised, and not
\* when it did not.
HandlerInvokedOnRaise ==
    /\ \A i \in Execs :
          (log[i].handler = "ProcExcHandler"
             /\ ~HandlerRunning(log[i].func.id)) =>
              Cardinality(HandledOf(log[i].func.id))
                  = (IF Raised(log[i].result) THEN 1 ELSE 0)
    /\ \A k \in 1..Len(handled) :
          /\ handled[k].by = MainThread
          /\ \E i \in Execs :
                /\ log[i].handler = "ProcExcHandler"
                /\ log[i].result = handled[k].exc

\* C9: the exception handler of a mute proxy is called once, by the main
\* thread, with the exception, when the method raised an Exception, and
\* not otherwise: an exception that is no Exception leaves the event
\* handler and the exception handler is not called.
HandlerInvokedOnException ==
    /\ \A i \in Execs :
          (log[i].handler = "ProcExcHandler"
             /\ ~HandlerRunning(log[i].func.id)) =>
              /\ Cardinality(HandledOf(log[i].func.id))
                    = (IF log[i].result.cls = "Exception" THEN 1 ELSE 0)
              /\ log[i].result.cls = "BaseException" =>
                    \E k \in 1..Len(escaped) : escaped[k] = log[i].result
    /\ \A k \in 1..Len(handled) :
          /\ handled[k].by = MainThread
          /\ handled[k].exc.cls = "Exception"
          /\ \E i \in Execs :
                /\ log[i].handler = "ProcExcHandler"
                /\ log[i].result = handled[k].exc

HandlerInvokedWitness ==
    /\ pc[MainThread] = "idle"
    /\ \E k \in 1..Len(handled) :
          \E i \in Execs :
              /\ log[i].func.caller \in Workers
              /\ log[i].result = handled[k].exc

\* C10: with the main thread making no step, every call through a mute
\* proxy returns to its caller.
MuteNeverSuspends ==
    \A t \in Workers :
        (frame[t].generator = "ProcGenerator") ~>
            (pc[t] = "idle" /\ ret[t].kind = "mute" /\ ret[t].how = "none")

\* The call has returned and its payload is in the queue.
MuteNeverSuspendsWitness ==
    \E t \in Workers :
        /\ pc[t] = "idle"
        /\ ret[t].kind = "mute"
        /\ \E k \in 1..Len(datastream) :
              datastream[k].data.func.id = ret[t].id

\* C11: a call through a mute proxy is scheduled whatever thread makes it,
\* the main thread included: the calling thread never executes the method
\* itself; the method is executed by the main loop, under an index of its
\* own, after every call that was given a smaller index.
MuteAlwaysScheduled ==
    /\ \A t \in Threads :
          frame[t].generator = "ProcGenerator" =>
              /\ pc[t] \in {"lock", "enqueue", "notify", "unlock"}
              /\ pc[t] # "lock" =>
                    /\ frame[t].index \in 0..(count - 1)
                    /\ \A u \in Threads \ {t} : frame[u].index # frame[t].index
                    /\ \A i \in Execs :
                          log[i].n = frame[t].index =>
                              /\ pc[t] = "unlock"
                              /\ log[i].func = frame[t].data.func
    /\ \A i \in Execs :
          log[i].handler \in {"ProcHandler", "ProcExcHandler"} =>
              /\ log[i].by = MainThread
              /\ log[i].n \in 0..(count - 1)
              /\ \A j \in Execs \ {i} : log[j].n # log[i].n
              /\ \A m \in 0..(log[i].n - 1) :
                    \E j \in 1..(i - 1) : log[j].n = m

\* The main thread called a method of a mute proxy after another call was
\* scheduled, and both were executed.
MuteAlwaysScheduledWitness ==
    \E i \in Execs :
        /\ log[i].handler \in {"ProcHandler", "ProcExcHandler"}
        /\ log[i].func.caller = MainThread
        /\ log[i].n >= 1

\* C12 as stated: the function executed by a call of m, where m = proxy.name
\* was obtained earlier, is the function the target's attribute is bound to
\* when m is called.
ResolvedAtCall ==
    \A i \in Execs : IsProxyCall(i) => log[i].func.f = log[i].func.at_call

\* C12: the attribute of the target is resolved when the proxy's attribute is
\* accessed, anew at every access: the function executed by a call of
\* m = proxy.name is the function the target's attribute was bound to when m
\* was obtained, whatever the attribute is bound to when m is called, and
\* the calls of a thread that still holds the m of an earlier call executed
\* that same function.
ResolvedAtAccess ==
    /\ \A t \in Threads :
          forwarder[t] # NoForwarder =>
              /\ forwarder[t].f = forwarder[t].at_access
              /\ forwarder[t].at_access \in 0..attr
    /\ \A t \in Threads :
          frame[t].kind \in {"mute", "sync"} =>
              /\ frame[t].data.func.f = forwarder[t].at_access
              /\ frame[t].data.func.at_call \in forwarder[t].at_access..attr
    /\ \A i \in Execs :
          IsProxyCall(i) =>
              /\ log[i].func.f \in 0..log[i].func.at_call
              /\ \A j \in Execs :
                    (IsProxyCall(j) /\ i < j
                       /\ log[i].func.caller = log[j].func.caller
                       /\ forwarder[log[i].func.caller].at_access
                            = log[i].func.f)
                      => log[j].func.f = log[i].func.f

\* m was obtained, the attribute was bound to another function, m was called
\* and the call was executed.
ResolvedAtAccessWitness ==
    \E i \in Execs :
        /\ IsProxyCall(i)
        /\ log[i].func.caller \in Workers
        /\ log[i].by = MainThread
        /\ log[i].func.f < log[i].func.at_call

\* C13: the queue holds exactly the calls that were enqueued and that the
\* main thread has not taken yet, each once and with the payload it was
\* enqueued with; when all the calls made were calls through ordinary
\* proxies and all have returned, the queue is empty.
PendingQueue ==
    /\ \A k, l \in 1..Len(datastream) :
          k # l => datastream[k].n # datastream[l].n
    /\ {datastream[k].n : k \in 1..Len(datastream)}
         = {n \in 0..(count - 1) :
               /\ \E k \in 1..Len(enqueued) : enqueued[k].n = n
               /\ \A i \in Execs : log[i].n # n
               /\ ~(pc[MainThread] = "call" /\ cur.index = n)
               /\ n \notin discarded}
    /\ \A k \in 1..Len(datastream) :
          \E l \in 1..Len(enqueued) :
              enqueued[l] = [n |-> datastream[k].n,
                             id |-> datastream[k].data.func.id]
    /\ ((\A t \in Threads : pc[t] = "idle")
          /\ \A id \in 0..(ncalls - 1) :
                \E i \in Execs : /\ log[i].func.id = id
                                 /\ log[i].handler = "FuncHandler")
         => datastream = <<>>

\* Two threads called through an ordinary proxy, both calls were scheduled
\* and both have returned.
PendingQueueWitness ==
    /\ \A t \in Threads : pc[t] = "idle"
    /\ datastream = <<>>
    /\ ret["t1"].kind = "sync" /\ ret["t2"].kind = "sync"
    /\ ret["t1"].how \in {"return", "raise"}
    /\ ret["t2"].how \in {"return", "raise"}
    /\ \E i, j \in Execs : i # j /\ IsScheduled(i) /\ IsScheduled(j)

\* C14: index assignment, enqueue and notification are one unit under the
\* lock: the indices carried by the notifications generated so far are, in
\* order, the indices of the entries appended to the queue so far (the N-th
\* notification carries the index of the N-th entry), at most one entry,
\* that of the thread holding the lock, is not notified yet, the events in
\* Tcl's queue are the last notifications generated, and the queue is
\* strictly increasing from head to tail.
AtomicGeneration ==
    /\ Len(notified) <= Len(enqueued)
    /\ Len(enqueued) <= Len(notified) + 1
    /\ \A k \in 1..Len(notified) : int(notified[k]) = enqueued[k].n
    /\ Len(enqueued) = Len(notified) + 1 =>
          \E t \in Threads :
              /\ generation_lock = t
              /\ pc[t] = "notify"
              /\ frame[t].index = enqueued[Len(enqueued)].n
    /\ \A k, l \in 1..Len(enqueued) : k < l => enqueued[k].n < enqueued[l].n
    /\ \A k, l \in 1..Len(datastream) :
          k < l => datastream[k].n < datastream[l].n
    /\ Len(tkqueue) <= Len(notified)
    /\ \A k \in 1..Len(tkqueue) :
          tkqueue[k].d = notified[Len(notified) - Len(tkqueue) + k]

\* Two threads generated events and both entries are in the queue.
AtomicGenerationWitness ==
    /\ Len(notified) >= 2
    /\ Len(datastream) >= 2
    /\ datastream[1].data.func.caller # datastream[2].data.func.caller
    /\ datastream[1].data.func.caller \in Workers
    /\ datastream[2].data.func.caller \in Workers

\* C15: from the clearing of the bell of its cell to its read of the cell, a
\* thread that calls through an ordinary proxy sees the handler write the
\* error flag once and the value once, what the execution of this very call
\* made, and the bell set only after both writes; the bell is never set
\* before this call was executed, so that the bell of an earlier call wakes
\* nobody; and a thread that has read its cell read it after the two writes
\* and the bell of its call.
CellHandOff ==
    \A t \in Threads :
        LET cell == frame[t].data.cell
            id == frame[t].data.func.id
        IN
        /\ (frame[t].generator = "FuncGenerator"
              /\ pc[t] \in {"lock", "enqueue", "notify", "unlock", "wait"})
             => /\ cell = t
                /\ cells[cell].flag_writes \in {0, 1}
                /\ cells[cell].value_writes \in {0, 1}
                /\ cells[cell].value_writes <= cells[cell].flag_writes
                /\ cells[cell].bell => cells[cell].value_writes = 1
                /\ cells[cell].flag_writes = 1 =>
                      \E i \in ExecsOf(id) :
                          /\ pc[t] \in {"unlock", "wait"}
                          /\ cells[cell].err_flag
                               = (log[i].result.cls = "Exception")
                          /\ cells[cell].value_writes = 1 =>
                                cells[cell].value = log[i].result
                /\ cells[cell].value_writes = 0 => cells[cell].value = NoObj
        /\ (pc[t] = "idle" /\ ret[t].kind = "sync"
              /\ ret[t].how \in {"return", "raise"} /\ local[t] = t)
             => /\ cells[t].bell
                /\ cells[t].flag_writes = 1
                /\ cells[t].value_writes = 1
                /\ cells[t].value = NoObj
                /\ \E i \in ExecsOf(ret[t].id) :
                      /\ ret[t].obj = log[i].result
                      /\ cells[t].err_flag = (ret[t].how = "raise")

\* A thread waits for the bell of its second call, which is executed and
\* written but not signalled yet, after the bell of its first call rang.
CellHandOffWitness ==
    \E t \in Workers :
        /\ pc[t] = "wait"
        /\ ret[t].kind = "sync"
        /\ ~cells[t].bell
        /\ cells[t].value_writes = 1

\* C16: a thread other than the main thread has a cell of its own from its
\* first call through an ordinary proxy on, not before, and keeps it: the
\* cell of its every later call is this one; no two threads have the same
\* cell; the main thread never has a cell; and no two entries of the queue
\* refer to the same cell.
OneCellPerThread ==
    /\ []( /\ local[MainThread] \in {Unset, None}
           /\ \A t \in Workers :
                 /\ local[t] \in {Unset, t}
                 /\ local[t] = t <=>
                       \/ frame[t].generator = "FuncGenerator"
                       \/ \E i \in Execs : /\ log[i].func.caller = t
                                           /\ log[i].handler = "FuncHandler"
                 /\ cells[t] # NewCell => local[t] = t
           /\ \A t, u \in Threads :
                 (t # u /\ local[t] = local[u]) => local[t] \in {Unset, None}
           /\ \A t \in Threads :
                 frame[t].generator = "FuncGenerator" =>
                     /\ local[t] # Unset
                     /\ frame[t].data.cell = local[t]
           /\ \A k \in 1..Len(datastream) :
                 /\ datastream[k].data.handler = "FuncHandler" =>
                       datastream[k].data.cell
                         = local[datastream[k].data.func.caller]
                 /\ datastream[k].data.cell # None =>
                       \A l \in 1..Len(datastream) :
                           l # k => datastream[l].data.cell
                                      # datastream[k].data.cell )
    /\ [][\A t \in Threads : local[t] # Unset => local'[t] = local[t]]_vars

\* A thread makes its second call through an ordinary proxy, with the cell
\* of its first call, and the entry in the queue refers to this cell.
OneCellPerThreadWitness ==
    \E t \in Workers :
        /\ pc[t] = "wait"
        /\ ret[t].kind = "sync"
        /\ frame[t].data.cell = local[t]
        /\ \E k \in 1..Len(datastream) : datastream[k].data.cell = t

\* History: the payload executed for a notification is the payload that was
\* enqueued with the index of the notification.
RightPayload(i) ==
    \E k \in 1..Len(enqueued) :
        enqueued[k] = [n |-> log[i].n, id |-> log[i].func.id]

TakeFailed(k) == escaped[k].cls \in {"IndexError", "AssertionError"}

\* C17: when _substitute pops an entry whose index is greater than the index
\* it looks for, it fails with AssertionError at once, and no handler is
\* called for this event; a handler is only ever called with the payload
\* enqueued with the index of its event.
GreaterIndexFails ==
    /\ [](\A i \in Execs : IsScheduled(i) => RightPayload(i))
    /\ [][(/\ pc[MainThread] = "subst"
           /\ datastream # <<>>
           /\ Head(datastream).n > cur.index
           /\ Len(datastream') < Len(datastream))
          => /\ escaped' = Append(escaped, [cls |-> "AssertionError",
                                            v |-> cur.index, id |-> -1])
             /\ pc'[MainThread] = "idle"
             /\ log' = log]_vars

\* _substitute, called again for an event already handled, popped the entry
\* of the next event and failed.
GreaterIndexFailsWitness ==
    \E k \in 1..Len(escaped) :
        /\ escaped[k].cls = "AssertionError"
        /\ \E n \in discarded : n > escaped[k].v

\* C18 as stated: after an event was dropped or handled twice, _substitute
\* called for any later event returns the payload enqueued with its index,
\* without error and without removing an entry of greater index.
FaultsTolerated ==
    /\ \A i \in Execs : IsScheduled(i) => RightPayload(i)
    /\ \A k \in 1..Len(escaped) :
          TakeFailed(k) =>
              \A m \in tkfaults.lost \cup tkfaults.twice : escaped[k].v <= m

\* C18: as long as no event is handled twice, dropped events do no harm:
\* _substitute never fails, it returns the payload enqueued with the index
\* of its event, and the entries it removes without returning them are
\* entries of dropped events, of smaller index than the event handled.
LossTolerated ==
    tkfaults.twice = {} =>
        /\ \A i \in Execs : IsScheduled(i) => RightPayload(i)
        /\ \A k \in 1..Len(escaped) : ~TakeFailed(k)
        /\ discarded \subseteq tkfaults.lost
        /\ \A n \in discarded :
              \/ \E i \in Execs : log[i].n > n
              \/ pc[MainThread] \in {"subst", "call"} /\ cur.index > n

\* An event was dropped and the event after it was handled, its stale entry
\* removed on the way.
LossToleratedWitness ==
    /\ tkfaults.twice = {}
    /\ \E n \in tkfaults.lost :
          /\ n \in discarded
          /\ \E i \in Execs : log[i].n > n /\ RightPayload(i)

\* C19 as stated: an exception raised by a method called through a mute
\* proxy without exception handler does not leave the event handler on the
\* main thread.
MuteExceptionSwallowed ==
    \A i \in Execs :
        log[i].handler = "ProcHandler" =>
            \A k \in 1..Len(escaped) : escaped[k] # log[i].result

\* C19: an exception raised by a method called through a mute proxy without
\* exception handler is not seen by the caller, whose call returned None or
\* returns None whatever the method does, and no exception handler is called
\* with it; it leaves the event handler on the main thread, once, into the
\* main loop, and the main thread is out of the handler of the call then.
MuteExceptionLeaves ==
    /\ \A t \in Threads :
          ret[t].kind = "mute" => ret[t].how = "none" /\ ret[t].obj = NoObj
    /\ \A i \in Execs :
          (log[i].handler = "ProcHandler"
             /\ log[i].result.cls \in {"Exception", "BaseException"})
            => /\ log[i].by = MainThread
               /\ Cardinality({k \in 1..Len(escaped) :
                                  escaped[k] = log[i].result}) = 1
               /\ \A k \in 1..Len(handled) : handled[k].exc # log[i].result
    /\ pc[MainThread] \notin {"subst", "call"} =>
          cur.data.handler # "ProcHandler"

\* The method of a worker's call raised, and the main loop executed a call
\* scheduled after it.
MuteExceptionLeavesWitness ==
    \E i, j \in Execs :
        /\ i < j
        /\ log[i].handler = "ProcHandler"
        /\ log[i].func.caller \in Workers
        /\ log[i].result.cls = "Exception"
        /\ IsScheduled(j)
        /\ log[j].n > log[i].n

\* C20: a thread holds the generation lock only from the assignment of the
\* index to the notification: never while it waits for the bell of its cell,
\* never while it is about to execute a method in place, and the main thread
\* never while it runs an event handler, the target function or an exception
\* handler; so the lock is free or held by a thread that needs no step of
\* any other thread to release it, and a thread that waits for its bell
\* keeps no other thread from generating events.
LockScope ==
    /\ generation_lock \in Threads \cup {None}
    /\ \A t \in Threads :
          generation_lock = t <=> pc[t] \in {"enqueue", "notify", "unlock"}
    /\ \A t \in Threads :
          pc[t] \in {"wait", "inplace", "idle", "lock"} =>
              generation_lock # t
    /\ pc[MainThread] \in {"subst", "call", "exc_handler", "set_flag",
                           "set_value", "set_bell"}
         => generation_lock # MainThread

\* A thread waits for its bell while another thread holds the lock and
\* generates an event.
LockScopeWitness ==
    \E t, u \in Threads :
        /\ t # u
        /\ pc[t] = "wait"
        /\ generation_lock = u
        /\ pc[u] = "notify"

====
